---- MODULE Spec2Model ----
(***************************************************************************)
(* Geodesic distance transform (module gdt): wavefront propagation of a    *)
(* distance field from a seed over a binary image with periodic            *)
(* boundaries, in 2D (dist2d / ady2d) and 3D (dist3d / ady3d).             *)
(*                                                                         *)
(* A position is the tuple the code uses: <<y, x>> or <<z, y, x>>.  A      *)
(* fuente is a position with its distance appended, as built by            *)
(* casilla + (array[casilla],).  Python indices are 0-based; a sequence    *)
(* element at Python index n is element n+1 here.                          *)
(***************************************************************************)
EXTENDS Integers, Sequences, FiniteSets, TLC

VARIABLES shape, array_input, seed, dist_type, periodic_boundaries,
          array, lista_fuentes, next_lista_fuentes, lista_adyacentes,
          k, rounds, pc

vars == <<shape, array_input, seed, dist_type, periodic_boundaries,
          array, lista_fuentes, next_lista_fuentes, lista_adyacentes,
          k, rounds, pc>>

(***************************************************************************)
(* Bounds of the explored inputs.                                          *)
(***************************************************************************)
MaxSY2 == 3
MaxSX2 == 4
MaxSZ3 == 3
MaxSY3 == 3
MaxSX3 == 2
MaxBackground == 2
MaxForeground == 2
MaxSeed == 1
MaxExtent == 4

(***************************************************************************)
(* Values of the working array and of the result.                          *)
(***************************************************************************)
FOREGROUND == -1
BACKGROUND == -2
Inf == 1000000

DistTypes == {"city", "chess", "borges", "quasi", "euclid"}

Cells(sh) ==
    IF Len(sh) = 2
    THEN {<<y, x>> : y \in 0..(sh[1]-1), x \in 0..(sh[2]-1)}
    ELSE {<<z, y, x>> : z \in 0..(sh[1]-1), y \in 0..(sh[2]-1), x \in 0..(sh[3]-1)}

Shapes2 == {<<sy, sx>> : sy \in 1..MaxSY2, sx \in 1..MaxSX2}
Shapes3 == {<<sz, sy, sx>> : sz \in 1..MaxSZ3, sy \in 1..MaxSY3, sx \in 1..MaxSX3}

\* binary images over a shape: nearly full or nearly empty
Images(sh) ==
    LET C == Cells(sh)
        few == {S \in SUBSET C : Cardinality(S) <= MaxBackground}
        fg  == {S \in SUBSET C : Cardinality(S) <= MaxForeground}
    IN  {[c \in C |-> IF c \in S THEN 0 ELSE 1] : S \in few}
        \cup {[c \in C |-> IF c \in S THEN 1 ELSE 0] : S \in fg}

Seeds(sh) == {c \in Cells(sh) : \A n \in 1..Len(sh) : c[n] <= MaxSeed}

(***************************************************************************)
(* ady2d: the 4 or 8 neighbours of a position, wrapped modulo the shape.   *)
(***************************************************************************)
ady2d(position, sh, ady) ==
    LET SY == sh[1]
        SX == sh[2]
        y == position[1]
        x == position[2]
        four == << <<(y-1) % SY, x % SX>>,
                   <<(y+1) % SY, x % SX>>,
                   <<y % SY, (x-1) % SX>>,
                   <<y % SY, (x+1) % SX>> >>
        diag == << <<(y-1) % SY, (x-1) % SX>>,
                   <<(y-1) % SY, (x+1) % SX>>,
                   <<(y+1) % SY, (x-1) % SX>>,
                   <<(y+1) % SY, (x+1) % SX>> >>
    IN  IF ady = 8 THEN four \o diag ELSE four

(***************************************************************************)
(* ady3d: the 6 or 26 enumerated neighbours of a position.                 *)
(***************************************************************************)
OffsetsAxis ==
    << <<-1,0,0>>, <<1,0,0>>, <<0,-1,0>>, <<0,1,0>>, <<0,0,-1>>, <<0,0,1>> >>

OffsetsEdge ==
    << <<-1,-1,0>>, <<-1,1,0>>, <<1,-1,0>>, <<1,1,0>>,
       <<-1,0,-1>>, <<-1,0,1>>, <<1,0,-1>>, <<1,0,1>>,
       <<0,-1,-1>>, <<0,-1,1>>, <<0,1,-1>>, <<0,1,1>> >>

OffsetsCorner ==
    << <<-1,-1,-1>>, <<-1,-1,1>>, <<1,-1,1>>, <<1,-1,-1>>,
       <<-1,1,1>>,  <<-1,1,-1>>, <<-1,-1,1>>, <<-1,-1,-1>> >>

ady3d(position, sh, ady) ==
    LET SZ == sh[1]
        SY == sh[2]
        SX == sh[3]
        z == position[1]
        y == position[2]
        x == position[3]
        offs == IF ady = 26 THEN OffsetsAxis \o OffsetsEdge \o OffsetsCorner ELSE OffsetsAxis
    IN  [n \in 1..Len(offs) |->
            <<(z + offs[n][1]) % SZ, (y + offs[n][2]) % SY, (x + offs[n][3]) % SX>>]

(***************************************************************************)
(* order: lista.sort(key = element dim), a stable ascending sort.          *)
(***************************************************************************)
RECURSIVE Insert(_, _, _)
Insert(sorted, e, dim) ==
    IF sorted = <<>> THEN <<e>>
    ELSE IF sorted[Len(sorted)][dim] <= e[dim]
         THEN Append(sorted, e)
         ELSE Append(Insert(SubSeq(sorted, 1, Len(sorted) - 1), e, dim),
                     sorted[Len(sorted)])

RECURSIVE order(_, _)
order(lista, dim) ==
    IF lista = <<>> THEN <<>>
    ELSE Insert(order(SubSeq(lista, 1, Len(lista) - 1), dim),
                lista[Len(lista)], dim)

(***************************************************************************)
(* The body of "for fuente in lista_fuentes", per dimension.               *)
(***************************************************************************)
IsChamfer(dt) == dt \in {"borges", "quasi"}

\* connectivity chosen for a fuente (dist2d lines 75-78, dist3d lines 177-180)
Ady2(dt) == IF dt \in {"chess", "borges", "quasi"} THEN 8 ELSE 4
Ady3(dt) == IF dt \in {"chess", "borges", "quasi"} THEN 26 ELSE 6

\* the if / elif chain that ends in the raise
Recognised(dt) == dt \in {"city", "chess", "borges", "quasi"}

\* value written for the neighbour at 0-based index of a fuente of distance d
Increment2(dt, index) ==
    IF dt \in {"city", "chess"} THEN 1
    ELSE IF dt = "borges" THEN 3 + (index \div 4)
    ELSE 5 + (index \div 4) * 2

\* variant: the two-axis block starts one index late
Increment3LateBlock(dt, index) ==
    IF dt \in {"city", "chess"} THEN 1
    ELSE IF dt = "borges"
         THEN (IF index <= 6 THEN 3 ELSE IF index < 18 THEN 4 ELSE 5)
    ELSE (IF index <= 6 THEN 10 ELSE IF index < 18 THEN 14 ELSE 17)

Increment3(dt, index) ==
    IF dt \in {"city", "chess"} THEN 1
    ELSE IF dt = "borges"
         THEN (IF index < 6 THEN 3 ELSE IF index < 18 THEN 4 ELSE 5)
    ELSE (IF index < 6 THEN 10 ELSE IF index < 18 THEN 14 ELSE 17)

Increment(dt, ndim, index) ==
    IF ndim = 2 THEN Increment2(dt, index) ELSE Increment3(dt, index)

\* variant: every cell that is not background may be written
ActualizableNotBackground(arr, casilla) == arr[casilla] # BACKGROUND

\* the test that lets a neighbour be written
Actualizable(arr, casilla) == arr[casilla] = FOREGROUND

\* "for index, casilla in enumerate(lista_adyacentes)" from index on:
\* the array, the next frontier and whether the raise was reached
RECURSIVE Enumerate(_, _, _, _, _, _)
Enumerate(fuente, la, index, arr, nl, dt) ==
    IF index >= Len(la) THEN [array |-> arr, next |-> nl, raised |-> FALSE]
    ELSE LET casilla == la[index + 1]
             ndim == Len(casilla)
         IN  IF Actualizable(arr, casilla)
             THEN IF Recognised(dt)
                  THEN LET v == fuente[ndim + 1] + Increment(dt, ndim, index)
                           arr2 == [arr EXCEPT ![casilla] = v]
                       IN  Enumerate(fuente, la, index + 1, arr2,
                                     Append(nl, Append(casilla, arr2[casilla])), dt)
                  ELSE [array |-> arr, next |-> nl, raised |-> TRUE]
             ELSE Enumerate(fuente, la, index + 1, arr, nl, dt)

Adyacentes(fuente, sh, dt) ==
    IF Len(sh) = 2 THEN ady2d(fuente, sh, Ady2(dt)) ELSE ady3d(fuente, sh, Ady3(dt))

\* connectivity chosen by dist2d of gdt_comments.py (lines 84-87): only
\* "city" gets 4
Ady2Comments(dt) == IF dt = "city" THEN 4 ELSE 8

\* variant: without periodic boundaries a neighbour across the border is
\* clamped back onto the border
NeighboursClamped(copy, fuente, sh, dt, pb) ==
    LET la == IF copy = "gdt" THEN Adyacentes(fuente, sh, dt)
              ELSE IF Len(sh) = 2 THEN ady2d(fuente, sh, Ady2Comments(dt))
              ELSE ady3d(fuente, sh, Ady3(dt))
        away(a, b) == a - b > 1 \/ b - a > 1
    IN  IF pb THEN la
        ELSE [n \in 1..Len(la) |->
                 [m \in 1..Len(sh) |->
                     IF away(la[n][m], fuente[m]) THEN fuente[m] ELSE la[n][m]]]

\* the neighbour list a copy of the module ("gdt" or "gdt_comments") asks
\* for inside dist2d / dist3d; periodic_boundaries (pb) is in scope there
\* and is not handed to ady2d / ady3d
Neighbours(copy, fuente, sh, dt, pb) ==
    IF copy = "gdt" THEN Adyacentes(fuente, sh, dt)
    ELSE IF Len(sh) = 2 THEN ady2d(fuente, sh, Ady2Comments(dt))
    ELSE ady3d(fuente, sh, Ady3(dt))

(***************************************************************************)
(* State machine of one call dist(array_input, seed, dist_type) of gdt.py. *)
(***************************************************************************)
\* np.where(array_input > 0, -1, -2)
Classify(img) == [c \in DOMAIN img |-> IF img[c] > 0 THEN FOREGROUND ELSE BACKGROUND]

\* variant: the seed test rejects nothing but a settled cell
SeedIsForegroundAnyUnsettled(arr, s) == arr[s] < 0

\* the test of "if array[seed] != -1: raise"
SeedIsForeground(arr, s) == arr[s] = FOREGROUND

\* the call dist(array_input, seed, dist_type) with periodic_boundaries at
\* its default (line 33), the working array classified
Init ==
    /\ shape \in Shapes2 \cup Shapes3
    /\ array_input \in Images(shape)
    /\ seed \in Seeds(shape)
    /\ dist_type \in DistTypes
    /\ periodic_boundaries = TRUE
    /\ array = Classify(array_input)
    /\ lista_fuentes = <<>>
    /\ next_lista_fuentes = <<>>
    /\ lista_adyacentes = <<>>
    /\ k = 0
    /\ rounds = 0
    /\ pc = "dist"

\* lines 62-63 / 164-165: the seed is not foreground
RaiseSeed ==
    /\ pc = "dist"
    /\ ~SeedIsForeground(array, seed)
    /\ pc' = "raise_seed"
    /\ UNCHANGED <<shape, array_input, seed, dist_type, periodic_boundaries,
                   array, lista_fuentes,
                   next_lista_fuentes, lista_adyacentes, k, rounds>>

\* lines 64-67 / 166-169: the seed is settled at 0 and is the first frontier
Start ==
    /\ pc = "dist"
    /\ SeedIsForeground(array, seed)
    /\ array' = [array EXCEPT ![seed] = 0]
    /\ lista_fuentes' = <<Append(seed, 0)>>
    /\ pc' = "while"
    /\ UNCHANGED <<shape, array_input, seed, dist_type, periodic_boundaries,
                   next_lista_fuentes, lista_adyacentes, k, rounds>>

\* lines 69-72 / 171-174: a round begins
Round ==
    /\ pc = "while"
    /\ lista_fuentes # <<>>
    /\ next_lista_fuentes' = <<>>
    /\ lista_fuentes' = IF IsChamfer(dist_type)
                        THEN order(lista_fuentes, Len(shape) + 1)
                        ELSE lista_fuentes
    /\ k' = 1
    /\ rounds' = rounds + 1
    /\ pc' = "for"
    /\ UNCHANGED <<shape, array_input, seed, dist_type, periodic_boundaries,
                   array, lista_adyacentes>>

\* lines 74-90 / 176-207: one fuente is expanded to its neighbours
Fuente ==
    /\ pc = "for"
    /\ k <= Len(lista_fuentes)
    /\ LET fuente == lista_fuentes[k]
           la == Neighbours("gdt", fuente, shape, dist_type, periodic_boundaries)
           r == Enumerate(fuente, la, 0, array, next_lista_fuentes, dist_type)
       IN  /\ lista_adyacentes' = la
           /\ array' = r.array
           /\ next_lista_fuentes' = r.next
           /\ pc' = IF r.raised THEN "raise_metric" ELSE "for"
           /\ k' = IF r.raised THEN k ELSE k + 1
    /\ UNCHANGED <<shape, array_input, seed, dist_type, periodic_boundaries,
                   lista_fuentes, rounds>>

\* line 92 / 209: the next frontier becomes the frontier
NextRound ==
    /\ pc = "for"
    /\ k > Len(lista_fuentes)
    /\ lista_fuentes' = next_lista_fuentes
    /\ pc' = "while"
    /\ UNCHANGED <<shape, array_input, seed, dist_type, periodic_boundaries,
                   array,
                   next_lista_fuentes, lista_adyacentes, k, rounds>>

\* variant: only the background is mapped to the sentinel
FinalizeBackgroundOnly(arr) ==
    [c \in DOMAIN arr |-> IF arr[c] = -2 THEN Inf ELSE arr[c]]

\* np.where(array == -1, inf, array); np.where(array == -2, inf, array)
Finalize(arr) ==
    LET a1 == [c \in DOMAIN arr |-> IF arr[c] = -1 THEN Inf ELSE arr[c]]
    IN  [c \in DOMAIN a1 |-> IF a1[c] = -2 THEN Inf ELSE a1[c]]

\* lines 94-97 / 211-214: the loop is over, the array is returned
Return ==
    /\ pc = "while"
    /\ lista_fuentes = <<>>
    /\ array' = Finalize(array)
    /\ pc' = "return"
    /\ UNCHANGED <<shape, array_input, seed, dist_type, periodic_boundaries,
                   lista_fuentes,
                   next_lista_fuentes, lista_adyacentes, k, rounds>>

Next == RaiseSeed \/ Start \/ Round \/ Fuente \/ NextRound \/ Return

Spec == Init /\ [][Next]_vars

(***************************************************************************)
(* Reference notions the properties are stated with: the displacements of  *)
(* the torus and shortest path sums over foreground cells.                 *)
(***************************************************************************)
Displacements(ndim) ==
    IF ndim = 2
    THEN {<<dy, dx>> : dy \in {-1, 0, 1}, dx \in {-1, 0, 1}} \ {<<0, 0>>}
    ELSE {<<dz, dy, dx>> : dz \in {-1, 0, 1}, dy \in {-1, 0, 1}, dx \in {-1, 0, 1}}
         \ {<<0, 0, 0>>}

\* number of axes a displacement moves along
Axes(o) == Cardinality({n \in 1..Len(o) : o[n] # 0})

Wrap(p, o, sh) == [n \in 1..Len(sh) |-> (p[n] + o[n]) % sh[n]]

\* displacements a metric may step along: 4 / 6 for city, 8 / 26 otherwise
MetricDisplacements(dt, ndim) ==
    IF dt = "city" THEN {o \in Displacements(ndim) : Axes(o) = 1}
    ELSE Displacements(ndim)

\* per-step increment of a metric for a displacement along a axes
MetricIncrement(dt, ndim, a) ==
    IF dt \in {"city", "chess"} THEN 1
    ELSE IF dt = "borges" THEN (IF a = 1 THEN 3 ELSE IF a = 2 THEN 4 ELSE 5)
    ELSE IF ndim = 2 THEN (IF a = 1 THEN 5 ELSE 7)
    ELSE (IF a = 1 THEN 10 ELSE IF a = 2 THEN 14 ELSE 17)

SetMin(S) == CHOOSE m \in S : \A n \in S : m <= n

\* one relaxation of every foreground cell from its neighbours
Relax(d, img, sh, dt) ==
    LET ndim == Len(sh)
        D == MetricDisplacements(dt, ndim)
    IN  [q \in DOMAIN d |->
            IF img[q] > 0
            THEN SetMin({d[q]} \cup
                        {d[Wrap(q, o, sh)] + MetricIncrement(dt, ndim, Axes(o)) :
                            o \in {u \in D : d[Wrap(q, u, sh)] < Inf}})
            ELSE Inf]

RECURSIVE Fixpoint(_, _, _, _)
Fixpoint(d, img, sh, dt) ==
    LET d2 == Relax(d, img, sh, dt)
    IN  IF d2 = d THEN d ELSE Fixpoint(d2, img, sh, dt)

\* least sum of increments over the foreground paths from s, Inf if none
Shortest(img, sh, s, dt) ==
    Fixpoint([c \in DOMAIN img |-> IF c = s THEN 0 ELSE Inf], img, sh, dt)

(***************************************************************************)
(* C1: for city and chess, the returned array gives every cell reachable   *)
(* from the seed its toroidal breadth-first hop distance through           *)
(* foreground cells (4 / 6 connectivity for city, 8 / 26 for chess).       *)
(***************************************************************************)
HopDistanceExact ==
    (pc = "return" /\ dist_type \in {"city", "chess"}) =>
        LET ref == Shortest(array_input, shape, seed, dist_type)
        IN  \A c \in Cells(shape) : ref[c] < Inf => array[c] = ref[c]

(***************************************************************************)
(* C2: a metric identifier that is not one of the four names makes the     *)
(* call fail with the unknown-metric error on every grid; no array is      *)
(* returned.                                                               *)
(***************************************************************************)
UnknownMetricAlwaysRaises ==
    ~Recognised(dist_type) => pc # "return"

(***************************************************************************)
(* C3: with a background seed the call fails with the seed error before    *)
(* any round starts and before any cell is settled, whatever the metric.   *)
(***************************************************************************)
BackgroundSeedRaisesFirst ==
    ~(array_input[seed] > 0) =>
        /\ pc \in {"dist", "raise_seed"}
        /\ rounds = 0
        /\ lista_fuentes = <<>>
        /\ next_lista_fuentes = <<>>
        /\ \A c \in Cells(shape) : array[c] < 0

\* an all-background grid and an unrecognised metric end in the seed error
BackgroundSeedRaised ==
    /\ pc = "raise_seed"
    /\ \A c \in Cells(shape) : array_input[c] = 0
    /\ Cardinality(Cells(shape)) > 1
    /\ ~Recognised(dist_type)

(***************************************************************************)
(* C4: on return a cell is finite exactly when it is a foreground cell     *)
(* connected to the seed by foreground cells under the metric's toroidal   *)
(* connectivity; all other cells hold the infinite sentinel.               *)
(***************************************************************************)
FiniteIffConnected ==
    (pc = "return" /\ Recognised(dist_type)) =>
        LET ref == Shortest(array_input, shape, seed, dist_type)
        IN  \A c \in Cells(shape) :
                /\ (array[c] < Inf) <=> (ref[c] < Inf)
                /\ array[c] >= Inf => array[c] = Inf

(***************************************************************************)
(* C5: for borges and quasi, a cell that several entries of one round's    *)
(* frontier have among their neighbours is settled at the minimum of       *)
(* their candidates (entry distance + increment).                          *)
(***************************************************************************)
\* candidates the already expanded entries of this round offer to cell c
Candidates(c) ==
    {lista_fuentes[j][Len(shape) + 1] + Increment(dist_type, Len(shape), n - 1) :
        <<j, n>> \in {jn \in (1..(k - 1)) \X (1..(IF Len(shape) = 2 THEN 8 ELSE 26)) :
                         Adyacentes(lista_fuentes[jn[1]], shape, dist_type)[jn[2]] = c}}

SettledAtRoundMinimum ==
    (pc = "for" /\ IsChamfer(dist_type)) =>
        \A e \in 1..Len(next_lista_fuentes) :
            LET c == SubSeq(next_lista_fuentes[e], 1, Len(shape))
            IN  \A v \in Candidates(c) : array[c] <= v

(***************************************************************************)
(* C6: for borges and quasi, the distance returned for every reachable     *)
(* foreground cell is the least sum of increments over the foreground      *)
(* paths from the seed under 8 / 26 toroidal connectivity.                 *)
(***************************************************************************)
ChamferDistanceExact ==
    (pc = "return" /\ IsChamfer(dist_type)) =>
        LET ref == Shortest(array_input, shape, seed, dist_type)
        IN  \A c \in Cells(shape) : ref[c] < Inf => array[c] = ref[c]

(***************************************************************************)
(* The neighbour enumeration on its own: one call of ady3d as dist3d       *)
(* makes it (lines 177-180), for a position of an all-foreground grid      *)
(* whose extents are all at least 3.  The position is held in seed.        *)
(***************************************************************************)
ShapesAdy == {<<sz, sy, sx>> : sz \in 3..MaxExtent, sy \in 3..MaxExtent, sx \in 3..MaxExtent}

InitAdy ==
    /\ shape \in ShapesAdy
    /\ array_input = [c \in Cells(shape) |-> 1]
    /\ seed \in Cells(shape)
    /\ dist_type \in DistTypes
    /\ periodic_boundaries = TRUE
    /\ array = Classify(array_input)
    /\ lista_fuentes = <<>>
    /\ next_lista_fuentes = <<>>
    /\ lista_adyacentes = <<>>
    /\ k = 0
    /\ rounds = 0
    /\ pc = "ady"

AdyCall ==
    /\ pc = "ady"
    /\ lista_adyacentes' = Adyacentes(Append(seed, 0), shape, dist_type)
    /\ pc' = "ady_done"
    /\ UNCHANGED <<shape, array_input, seed, dist_type, periodic_boundaries,
                   array, lista_fuentes,
                   next_lista_fuentes, k, rounds>>

NextAdy == AdyCall

SpecAdy == InitAdy /\ [][NextAdy]_vars

(***************************************************************************)
(* C7: with all extents at least 3, ady3d with ady = 26 returns 26         *)
(* pairwise distinct positions, exactly the cells at the 26 non-zero       *)
(* displacements, indices 0-5 one-axis, 6-17 two-axis, 18-25 three-axis;   *)
(* the adjacency is symmetric.                                             *)
(***************************************************************************)
Listed(p, q) ==
    \E n \in 1..26 : ady3d(p, shape, 26)[n] = q

Ady26Complete ==
    (pc = "ady_done" /\ Ady3(dist_type) = 26) =>
        /\ Len(lista_adyacentes) = 26
        /\ \A m, n \in 1..26 : m # n => lista_adyacentes[m] # lista_adyacentes[n]
        /\ {lista_adyacentes[n] : n \in 1..26}
              = {Wrap(seed, o, shape) : o \in Displacements(3)}
        /\ \A n \in 1..26 :
              \E o \in Displacements(3) :
                  /\ lista_adyacentes[n] = Wrap(seed, o, shape)
                  /\ Axes(o) = (IF n <= 6 THEN 1 ELSE IF n <= 18 THEN 2 ELSE 3)
        /\ \A q \in Cells(shape) : Listed(seed, q) <=> Listed(q, seed)

(***************************************************************************)
(* C8: for a recognised metric the loop runs at most |grid| rounds: every  *)
(* round that starts is paid for by a cell settled before it, the          *)
(* frontiers hold pairwise distinct cells, and a cell is appended to a     *)
(* frontier only when it was unsettled, so a self-adjacent or repeatedly   *)
(* enumerated cell is never added again.                                   *)
(***************************************************************************)
CellOf(fuente) == SubSeq(fuente, 1, Len(shape))
DistOf(fuente) == fuente[Len(shape) + 1]
SettledCells == {c \in Cells(shape) : array[c] >= 0 /\ array[c] < Inf}
Frontiers == lista_fuentes \o next_lista_fuentes

RoundsBounded ==
    Recognised(dist_type) =>
        /\ rounds <= Cardinality(SettledCells)
        /\ rounds <= Cardinality(Cells(shape))
        /\ pc = "for" =>
              \A m, n \in 1..Len(Frontiers) :
                  m # n => CellOf(Frontiers[m]) # CellOf(Frontiers[n])
        /\ (pc = "while" /\ lista_fuentes # <<>>) =>
              rounds < Cardinality(SettledCells)

AppendsOnlyUnsettled ==
    (Recognised(dist_type) /\ pc = "for" /\ pc' = "for") =>
        /\ Len(next_lista_fuentes') >= Len(next_lista_fuentes)
        /\ \A e \in (Len(next_lista_fuentes) + 1)..Len(next_lista_fuentes') :
              array[CellOf(next_lista_fuentes'[e])] = FOREGROUND

TerminatesWithinGrid == []RoundsBounded /\ [][AppendsOnlyUnsettled]_vars

\* a run over a grid with an extent of 1 or 2 that took three rounds or more
SmallExtentRunReturned ==
    /\ pc = "return"
    /\ Recognised(dist_type)
    /\ \E n \in 1..Len(shape) : shape[n] <= 2
    /\ rounds >= 3

(***************************************************************************)
(* C9: a cell that holds a distance keeps it in all later states,          *)
(* background cells are not written before the result is built, the seed   *)
(* is settled at 0 before the first round, every frontier entry carries    *)
(* the distance stored for its cell, and the returned array has 0 at the   *)
(* seed and no negative value.                                             *)
(***************************************************************************)
SettledState ==
    /\ pc \notin {"dist", "raise_seed", "ady", "ady_done"} =>
          /\ array[seed] = 0
          /\ \A c \in Cells(shape) : array_input[c] = 0 =>
                array[c] = (IF pc = "return" THEN Inf ELSE BACKGROUND)
    /\ pc \in {"dist", "raise_seed"} => (rounds = 0 /\ \A c \in Cells(shape) : array[c] < 0)
    /\ \A e \in 1..Len(Frontiers) :
          array[CellOf(Frontiers[e])] = DistOf(Frontiers[e])
    /\ pc = "return" => \A c \in Cells(shape) : array[c] >= 0

WriteOnceStep ==
    \A c \in Cells(shape) :
        /\ array[c] >= 0 => array'[c] = array[c]
        /\ (array[c] = BACKGROUND /\ pc' # "return") => array'[c] = BACKGROUND
        /\ (array[c] = FOREGROUND /\ array'[c] # array[c] /\ pc = "dist") =>
              (c = seed /\ array'[c] = 0 /\ lista_fuentes' = <<Append(seed, 0)>>)
        /\ (array[c] = FOREGROUND /\ array'[c] # array[c] /\ pc = "for") =>
              \E e \in (Len(next_lista_fuentes) + 1)..Len(next_lista_fuentes') :
                  /\ CellOf(next_lista_fuentes'[e]) = c
                  /\ \A f \in 1..Len(next_lista_fuentes') :
                        CellOf(next_lista_fuentes'[f]) = c => f = e
        /\ (array'[c] # array[c] /\ pc = "while") => (pc' = "return" /\ array'[c] = Inf)

WriteOnceSettlement == []SettledState /\ [][WriteOnceStep]_vars

\* a returned array with cells settled in a second round and a
\* background cell
MixedArrayReturned ==
    /\ pc = "return"
    /\ array[seed] = 0
    /\ rounds >= 3
    /\ \E c \in Cells(shape) : array[c] > 0 /\ array[c] < Inf
    /\ \E c \in Cells(shape) : array_input[c] = 0 /\ array[c] = Inf

(***************************************************************************)
(* C10: a cell settled by a frontier entry receives the entry's distance   *)
(* plus the metric's increment for the displacement: 1 for city and        *)
(* chess; 3 / 4 / 5 for borges; 5 / 7 (2D) and 10 / 14 / 17 (3D) for       *)
(* quasi, by the number of axes moved.  Where wraparound makes several     *)
(* displacements of the entry land on the cell, the one along the fewest   *)
(* axes counts.                                                            *)
(***************************************************************************)
\* fewest axes of a displacement of the metric that takes p to c
FewestAxes(p, c) ==
    SetMin({Axes(o) : o \in {u \in MetricDisplacements(dist_type, Len(shape)) :
                                Wrap(p, u, shape) = c}})

IncrementStep ==
    (pc = "for" /\ k <= Len(lista_fuentes) /\ pc' = "for") =>
        \A c \in Cells(shape) :
            array'[c] # array[c] =>
                array'[c] = DistOf(lista_fuentes[k])
                            + MetricIncrement(dist_type, Len(shape),
                                              FewestAxes(CellOf(lista_fuentes[k]), c))

IncrementByDisplacement == [][IncrementStep]_vars

\* a chamfer entry has just settled, at the axis increment, a cell that
\* is also one of its diagonal neighbours
AxisWinsOverDiagonal ==
    /\ pc = "for"
    /\ IsChamfer(dist_type)
    /\ k > 1
    /\ \E e \in 1..Len(next_lista_fuentes) :
          LET c == CellOf(next_lista_fuentes[e])
              first == IF Len(shape) = 2 THEN 4 ELSE 6
          IN  /\ \E n \in 1..first : lista_adyacentes[n] = c
              /\ \E n \in (first + 1)..Len(lista_adyacentes) : lista_adyacentes[n] = c
              /\ DistOf(next_lista_fuentes[e])
                    = DistOf(lista_fuentes[k - 1])
                      + MetricIncrement(dist_type, Len(shape), 1)

(***************************************************************************)
(* The whole call as a function of its arguments, for either copy of the   *)
(* module: dist -> dist2d / dist3d, the for loop over the frontier and the *)
(* while loop over the rounds.  The result is the way the call ends        *)
(* ("return", "raise_seed", "raise_metric") and the array at that point.   *)
(***************************************************************************)
RECURSIVE ForFuentes(_, _, _, _, _, _, _, _)
ForFuentes(copy, lista, j, arr, nl, sh, dt, pb) ==
    IF j > Len(lista) THEN [array |-> arr, next |-> nl, raised |-> FALSE]
    ELSE LET r == Enumerate(lista[j], Neighbours(copy, lista[j], sh, dt, pb),
                            0, arr, nl, dt)
         IN  IF r.raised THEN r
             ELSE ForFuentes(copy, lista, j + 1, r.array, r.next, sh, dt, pb)

RECURSIVE WhileFuentes(_, _, _, _, _, _)
WhileFuentes(copy, lista, arr, sh, dt, pb) ==
    IF lista = <<>> THEN [pc |-> "return", array |-> Finalize(arr)]
    ELSE LET sorted == IF IsChamfer(dt) THEN order(lista, Len(sh) + 1) ELSE lista
             r == ForFuentes(copy, sorted, 1, arr, <<>>, sh, dt, pb)
         IN  IF r.raised THEN [pc |-> "raise_metric", array |-> r.array]
             ELSE WhileFuentes(copy, r.next, r.array, sh, dt, pb)

dist(copy, img, sh, s, dt, pb) ==
    LET arr == Classify(img)
    IN  IF ~SeedIsForeground(arr, s) THEN [pc |-> "raise_seed", array |-> arr]
        ELSE WhileFuentes(copy, <<Append(s, 0)>>, [arr EXCEPT ![s] = 0], sh, dt, pb)

\* the call of the state machine has ended
Ended == pc \in {"return", "raise_seed", "raise_metric"}

(***************************************************************************)
(* The call dist(array_input, seed, dist_type, False) of gdt.py: the same  *)
(* steps, periodic_boundaries given as False.                              *)
(***************************************************************************)
InitFlag ==
    /\ shape \in Shapes2 \cup Shapes3
    /\ array_input \in Images(shape)
    /\ seed \in Seeds(shape)
    /\ dist_type \in DistTypes
    /\ periodic_boundaries = FALSE
    /\ array = Classify(array_input)
    /\ lista_fuentes = <<>>
    /\ next_lista_fuentes = <<>>
    /\ lista_adyacentes = <<>>
    /\ k = 0
    /\ rounds = 0
    /\ pc = "dist"

SpecFlag == InitFlag /\ [][Next]_vars

(***************************************************************************)
(* C11: periodic_boundaries has no effect: the call with False ends as the *)
(* call with True does (same error, or the same returned array), and the   *)
(* neighbours of every expanded entry are taken with wraparound modulo the *)
(* extents: each is a wrapped displacement of the entry and every wrapped  *)
(* one-axis displacement is among them.                                    *)
(***************************************************************************)
FlagWithoutEffect ==
    /\ Ended =>
          LET other == dist("gdt", array_input, shape, seed, dist_type,
                            ~periodic_boundaries)
          IN  /\ other.pc = pc
              /\ pc = "return" => other.array = array
    /\ (pc = "for" /\ k > 1) =>
          LET p == CellOf(lista_fuentes[k - 1])
              listed == {lista_adyacentes[n] : n \in 1..Len(lista_adyacentes)}
          IN  /\ \A q \in listed :
                    \E o \in Displacements(Len(shape)) : q = Wrap(p, o, shape)
              /\ \A o \in Displacements(Len(shape)) :
                    Axes(o) = 1 => Wrap(p, o, shape) \in listed

\* a call with periodic_boundaries = False returned an array in which a
\* cell across the border of the seed is one city hop away
FalseFlagWrapped ==
    /\ pc = "return"
    /\ periodic_boundaries = FALSE
    /\ dist_type = "city"
    /\ \E c \in Cells(shape) :
          /\ array[c] = 1
          /\ \E n \in 1..Len(shape) : c[n] - seed[n] >= 2

(***************************************************************************)
(* C12: dist() of gdt.py and dist() of gdt_comments.py end the same way    *)
(* for every grid, seed and metric string: both return the same array or   *)
(* both fail with the same error.                                          *)
(***************************************************************************)
CopiesAgree ==
    Ended =>
        LET other == dist("gdt_comments", array_input, shape, seed, dist_type,
                          periodic_boundaries)
        IN  /\ other.pc = pc
            /\ pc = "return" => other.array = array

====
